---------------------------- MODULE Spec2Model ----------------------------
(***************************************************************************)
(* Model of the face clustering repository:                                *)
(*   cluster_generator.py  ClusterGenerator (fit_predict, generate_clusters)*)
(*   face_extractor.py     FaceExtractor (per-image detection and filters)  *)
(*   process.py            the Flask /process handler                       *)
(*   execute.py            the command line entry point                     *)
(*                                                                         *)
(* Embeddings are abstracted to a coordinate on a line (pt) plus their     *)
(* length (dim); the distance of two embeddings is |pt1 - pt2|, in tenths, *)
(* so that eps = 0.4 is 4.  Only the neighbourhood graph (distance <= eps) *)
(* matters to DBSCAN.  Detection scores are in hundredths (0.5 is 50).     *)
(***************************************************************************)
EXTENDS Integers, Sequences, FiniteSets, TLC

VARIABLES call, runs, storage, cli

vars == <<call, runs, storage, cli>>

(***************************************************************************)
(* Bounds of the model.                                                    *)
(***************************************************************************)
\* longest faces / embeddings argument of a direct generate_clusters call
MaxLen == 2
\* most files in one request, most images in one folder
MaxFiles == 2
\* most accepted faces in one run
MaxFaces == 3
\* most raw detections the detector returns for one image
MaxDet == 2

Range(s) == {s[i] : i \in 1..Len(s)}

SeqsUpTo(S, n) == UNION {[1..k -> S] : k \in 0..n}

(***************************************************************************)
(* Python's str(int), as used by the f-strings of the source.              *)
(***************************************************************************)
Digit(d) ==
    CASE d = 0 -> "0" [] d = 1 -> "1" [] d = 2 -> "2" [] d = 3 -> "3"
      [] d = 4 -> "4" [] d = 5 -> "5" [] d = 6 -> "6" [] d = 7 -> "7"
      [] d = 8 -> "8" [] d = 9 -> "9"

RECURSIVE NatStr(_)
NatStr(n) == IF n < 10 THEN Digit(n) ELSE NatStr(n \div 10) \o Digit(n % 10)

ToStr(n) == IF n < 0 THEN "-" \o NatStr(-n) ELSE NatStr(n)

(***************************************************************************)
(* ClusterGenerator: configuration and the clustering itself.              *)
(***************************************************************************)
\* ClusterGenerator.__init__
ClusterGenerator(algorithm, eps, min_samples, metric) ==
    [algorithm |-> algorithm, eps |-> eps, min_samples |-> min_samples,
     metric |-> metric]

Abs(x) == IF x < 0 THEN -x ELSE x

\* distance of two embeddings under the configured metric (tenths)
Dist(e1, e2) == Abs(e1.pt - e2.pt)

\* the eps-neighbourhood of sample i, the sample itself included
Neighbors(embeddings, eps, i) ==
    {j \in 1..Len(embeddings) : Dist(embeddings[i], embeddings[j]) <= eps}

\* variant: the sample itself is not counted
CorePointsOffByOne(embeddings, eps, min_samples) ==
    {i \in 1..Len(embeddings) :
        Cardinality(Neighbors(embeddings, eps, i)) > min_samples}

\* DBSCAN: a sample is a core sample when its neighbourhood holds at least
\* min_samples samples
CorePoints(embeddings, eps, min_samples) ==
    {i \in 1..Len(embeddings) :
        Cardinality(Neighbors(embeddings, eps, i)) >= min_samples}

\* DBSCAN: the unlabelled samples reached from the samples of S through core
\* samples
RECURSIVE Expand(_, _, _, _, _)
Expand(embeddings, eps, core, unlabelled, S) ==
    LET new == {v \in unlabelled \ S :
                  \E u \in S \cap core : v \in Neighbors(embeddings, eps, u)}
    IN  IF new = {} THEN S
        ELSE Expand(embeddings, eps, core, unlabelled, S \cup new)

\* DBSCAN: the outer loop over the samples in input order; every unlabelled
\* core sample starts the next cluster, the others keep -1
RECURSIVE DbscanLoop(_, _, _, _, _, _)
DbscanLoop(embeddings, eps, core, i, labels, label_num) ==
    IF i > Len(embeddings) THEN labels
    ELSE IF labels[i] # -1 \/ i \notin core
         THEN DbscanLoop(embeddings, eps, core, i + 1, labels, label_num)
         ELSE LET unlabelled == {j \in 1..Len(embeddings) : labels[j] = -1}
                  C == Expand(embeddings, eps, core, unlabelled, {i})
              IN  DbscanLoop(embeddings, eps, core, i + 1,
                             [j \in 1..Len(embeddings) |->
                                 IF j \in C THEN label_num ELSE labels[j]],
                             label_num + 1)

DBSCAN(embeddings, eps, min_samples) ==
    DbscanLoop(embeddings, eps, CorePoints(embeddings, eps, min_samples), 1,
               [j \in 1..Len(embeddings) |-> -1], 0)

\* HDBSCAN's labels are not reproduced: any labelling of the samples by -1 or
\* a small cluster number is allowed (a superset of what the library returns)
HDBSCAN(embeddings) == [1..Len(embeddings) -> {-1, 0, 1}]

Raise(exc) == [exc |-> exc]

Raised(r) == "exc" \in DOMAIN r

\* ClusterGenerator.fit_predict: the set of its possible outcomes, a raised
\* exception or a label per embedding; the library rejects an array without
\* samples with a ValueError
fit_predict(self, embeddings) ==
    IF self.algorithm \notin {"dbscan", "hdbscan"} THEN {Raise("ValueError")}
    ELSE IF Len(embeddings) = 0 THEN {Raise("ValueError")}
    ELSE IF self.algorithm = "dbscan"
         THEN {[labels |-> DBSCAN(embeddings, self.eps, self.min_samples)]}
         ELSE {[labels |-> l] : l \in HDBSCAN(embeddings)}

\* variant: the label is left out of the name
ClusterNamePrefixOnly(label) ==
    IF label # -1 THEN "person_" ELSE "noise"

\* generate_clusters, line 46: the name of the cluster of a label
ClusterName(label) ==
    IF label # -1 THEN "person_" \o ToStr(label) ELSE "noise"

\* d[k] = v on a Python dict
DictSet(d, k, v) == [x \in DOMAIN d \cup {k} |-> IF x = k THEN v ELSE d[x]]

EmptyDict == [x \in {} |-> {}]

\* variant: the member list is replaced instead of extended
AddMemberOverwrite(clusters, cluster_name, path) ==
    DictSet(clusters, cluster_name, <<path>>)

\* generate_clusters, lines 47-49: append path to the members of cluster_name
AddMember(clusters, cluster_name, path) ==
    LET members == IF cluster_name \in DOMAIN clusters
                   THEN clusters[cluster_name] ELSE <<>>
    IN  DictSet(clusters, cluster_name, Append(members, path))

\* generate_clusters, lines 40-55: the loop over enumerate(faces) and the
\* returned dict; labels[i] raises IndexError past the end of labels
RECURSIVE AssembleLoop(_, _, _, _, _, _, _)
AssembleLoop(faces, embeddings, labels, path_key, i, clusters, embeddings_dict) ==
    IF i > Len(faces)
    THEN [success |-> TRUE, clusters |-> clusters, embeddings |-> embeddings_dict]
    ELSE IF i > Len(labels) THEN Raise("IndexError")
    ELSE LET path == faces[i][path_key]
         IN  AssembleLoop(faces, embeddings, labels, path_key, i + 1,
                          AddMember(clusters, ClusterName(labels[i]), path),
                          DictSet(embeddings_dict, path, embeddings[i]))

Assemble(faces, embeddings, labels, path_key) ==
    AssembleLoop(faces, embeddings, labels, path_key, 1, EmptyDict, EmptyDict)

\* ClusterGenerator.generate_clusters: the set of its possible outcomes, each
\* with the labels fit_predict returned
generate_clusters(self, faces, embeddings, path_key) ==
    {IF Raised(fp) THEN [out |-> fp, labels |-> <<>>]
     ELSE [out |-> Assemble(faces, embeddings, fp.labels, path_key),
           labels |-> fp.labels] :
        fp \in fit_predict(self, embeddings)}

(***************************************************************************)
(* FaceExtractor: what the detector returns for an image, and the filters. *)
(***************************************************************************)
\* the embeddings of the detections: two of the detector's 512 numbers, far
\* from each other, and one of another length
Embeddings == {[pt |-> 0, dim |-> 512], [pt |-> 6, dim |-> 512],
               [pt |-> 3, dim |-> 128]}

\* the raw detections: score in hundredths, box width and height in pixels
Detections ==
    {[det_score |-> 30, w |-> 40, h |-> 40, embedding |-> [pt |-> 0, dim |-> 512]],
     [det_score |-> 90, w |-> 40, h |-> 20, embedding |-> [pt |-> 0, dim |-> 512]]}
    \cup {[det_score |-> 90, w |-> 40, h |-> 40, embedding |-> e] : e \in Embeddings}

\* an image file: one cv2.imread cannot load, one FaceAnalysis.get raises on,
\* or one with the detections it returns
ImagesWith(faces) ==
    {[loads |-> FALSE, raises |-> FALSE, faces |-> <<>>],
     [loads |-> TRUE, raises |-> TRUE, faces |-> <<>>]}
    \cup {[loads |-> TRUE, raises |-> FALSE, faces |-> f] : f \in faces}

Images == ImagesWith(SeqsUpTo(Detections, MaxDet))

\* the images of the requests served at the same time: at most one face each
PlainImages ==
    ImagesWith({<<>>, <<[det_score |-> 90, w |-> 40, h |-> 40,
                         embedding |-> [pt |-> 0, dim |-> 512]]>>})

\* extract_faces_from_image_path, lines 21-29: the two filters
Accepted(face, min_size, det_thresh) ==
    /\ ~(face.det_score < det_thresh)
    /\ ~(face.w < min_size \/ face.h < min_size)

\* FaceExtractor.extract_faces_from_image_path: the exception the generator
\* raises, or the faces it yields
extract_faces_from_image_path(img, image_path, min_size, det_thresh) ==
    IF ~img.loads THEN [yielded |-> <<>>]
    ELSE IF img.raises THEN Raise("DetectorError")
    ELSE LET kept == SelectSeq(img.faces,
                               LAMBDA f : Accepted(f, min_size, det_thresh))
         IN  [yielded |->
                [k \in 1..Len(kept) |->
                    [bbox |-> <<kept[k].w, kept[k].h>>,
                     det_score |-> kept[k].det_score,
                     embedding |-> kept[k].embedding,
                     original_image_path |-> image_path]]]

\* np.array(list of embeddings): rows of different lengths make no array
NpArray(embeddings) ==
    IF \E i, j \in 1..Len(embeddings) : embeddings[i].dim # embeddings[j].dim
    THEN Raise("ValueError") ELSE [array |-> embeddings]

(***************************************************************************)
(* process.py: the /process handler.  A path is the tuple of its           *)
(* components.                                                             *)
(***************************************************************************)
UPLOAD_FOLDER == <<"..", "uploads">>

\* os.path.join for a relative, single-component b
PathJoin(a, b) == Append(a, b)

\* os.path.basename
Basename(path) == path[Len(path)]

\* request.form.get('min_size', 30), request.form.get('det_thresh', 0.5)
MinSizeDefault == 30

DetThreshDefault == 50

\* process.py, line 13
ServiceGenerator == ClusterGenerator("dbscan", 4, 1, "cosine")

NoTaskId == "(omitted)"

\* request.form.get('task_id', 'unknown')
FormTaskId(form) == IF form = NoTaskId THEN "unknown" ELSE form

FormTaskIds == {NoTaskId, "t1"}

FileNames == {"a.jpg", "b.jpg", ""}

\* variant: the identifier names the face by its number within the image only
FaceIdCounterOnly(task_id, n_faces, face_counter) ==
    task_id \o "_face" \o ToStr(face_counter)

\* line 79: f"{task_id}_img{len(all_faces)}_face{face_counter}"
FaceId(task_id, n_faces, face_counter) ==
    task_id \o "_img" \o ToStr(n_faces) \o "_face" \o ToStr(face_counter)

\* lines 78-102: the face_info of the face_counter-th face yielded for
\* image_path, all_faces holding n_faces faces so far
FaceInfo(task_id, image_path, face_data, n_faces, face_counter) ==
    LET face_id == FaceId(task_id, n_faces, face_counter)
    IN  [face_id |-> face_id,
         original_image_path |-> PathJoin(<<task_id>>, Basename(image_path)),
         original_image_name |-> Basename(image_path),
         boxed_image_path |-> PathJoin(<<task_id>>, face_id \o "_boxed.jpg"),
         bbox |-> face_data.bbox,
         det_score |-> face_data.det_score,
         embedding |-> face_data.embedding]

\* lines 73-102: the face_infos appended for one image
ImageFaces(task_id, image_path, yielded, n_faces) ==
    [k \in 1..Len(yielded) |->
        FaceInfo(task_id, image_path, yielded[k], n_faces + k - 1, k - 1)]

\* line 83: where the annotated image of a face is written
BoxedPath(task_id, face) ==
    PathJoin(PathJoin(UPLOAD_FOLDER, task_id), face.face_id \o "_boxed.jpg")

\* lines 136-143
FacesMetadata(all_faces) ==
    [id \in {all_faces[i].face_id : i \in 1..Len(all_faces)} |->
        LET last == CHOOSE i \in 1..Len(all_faces) :
                        /\ all_faces[i].face_id = id
                        /\ \A j \in 1..Len(all_faces) :
                              all_faces[j].face_id = id => j <= i
        IN  [original_image |-> all_faces[last].original_image_path,
             boxed_image |-> all_faces[last].boxed_image_path,
             bbox |-> all_faces[last].bbox,
             confidence |-> all_faces[last].det_score]]

\* line 151
UniquePersons(clusters) == Cardinality({k \in DOMAIN clusters : k # "noise"})

\* lines 173-181: the except branch
ErrorResponse(exc) ==
    [status |-> 500, body |-> [success |-> FALSE, error |-> exc]]

\* lines 41-45
NoFilesResponse ==
    [status |-> 400, body |-> [success |-> FALSE, error |-> "no files"]]

\* lines 109-115
NoFacesResponse ==
    [status |-> 200,
     body |-> [success |-> FALSE, error |-> "no faces", total_faces |-> 0]]

\* lines 132-171
SuccessResponse(task_id, all_faces, result) ==
    [status |-> 200,
     body |-> [success |-> TRUE,
               task_id |-> task_id,
               clusters |-> result.clusters,
               embeddings |-> result.embeddings,
               faces_metadata |-> FacesMetadata(all_faces),
               total_faces |-> Len(all_faces),
               unique_persons |-> UniquePersons(result.clusters)]]

RunIdle == [pc |-> "idle"]

CallIdle == [pc |-> "idle"]

CliIdle == [pc |-> "idle"]

\* lines 34-53: the request is read; without files it is answered at once
Request(r) ==
    /\ runs[r].pc = "idle"
    /\ \E files \in SeqsUpTo(FileNames, MaxFiles), form \in FormTaskIds :
          runs' = [runs EXCEPT ![r] =
                     [pc |-> IF files = <<>> THEN "done" ELSE "save",
                      task_id |-> FormTaskId(form),
                      files |-> files,
                      saved_paths |-> <<>>,
                      next |-> 1,
                      all_faces |-> <<>>,
                      failed |-> {},
                      calls |-> 0,
                      labels |-> <<>>,
                      response |-> IF files = <<>> THEN NoFilesResponse
                                   ELSE [status |-> 0]]]
    /\ UNCHANGED <<call, storage, cli>>

\* lines 57-62: one file of the request is saved under the task folder
SaveFile(r) ==
    LET run == runs[r]
    IN  /\ run.pc = "save"
        /\ LET file == run.files[1]
               filepath == PathJoin(PathJoin(UPLOAD_FOLDER, run.task_id), file)
               rest == Tail(run.files)
           IN  /\ runs' = [runs EXCEPT ![r] =
                     [run EXCEPT !.files = rest,
                                 !.saved_paths = IF file # ""
                                                 THEN Append(@, filepath) ELSE @,
                                 !.pc = IF rest = <<>> THEN "detect" ELSE "save"]]
               /\ storage' = IF file # "" THEN storage \cup {<<filepath, r>>}
                             ELSE storage
        /\ UNCHANGED <<call, cli>>

\* lines 70-105: one image of saved_paths goes through the detector; an
\* exception of the detector leaves the loop for the except branch
DetectImage(r, images) ==
    LET run == runs[r]
    IN  /\ run.pc = "detect"
        /\ run.next <= Len(run.saved_paths)
        /\ \E img \in images :
             LET image_path == run.saved_paths[run.next]
                 got == extract_faces_from_image_path(
                            img, image_path, MinSizeDefault, DetThreshDefault)
             IN  IF Raised(got)
                 THEN /\ runs' = [runs EXCEPT ![r] =
                            [run EXCEPT !.pc = "done",
                                        !.failed = @ \cup {run.next},
                                        !.response = ErrorResponse(got.exc)]]
                      /\ UNCHANGED storage
                 ELSE LET new == ImageFaces(run.task_id, image_path,
                                            got.yielded, Len(run.all_faces))
                      IN  /\ Len(run.all_faces) + Len(new) <= MaxFaces
                          /\ runs' = [runs EXCEPT ![r] =
                                [run EXCEPT !.all_faces = @ \o new,
                                            !.failed = IF img.loads THEN @
                                                       ELSE @ \cup {run.next},
                                            !.next = @ + 1]]
                          /\ storage' = storage \cup
                                {<<BoxedPath(run.task_id, new[k]), r>> :
                                    k \in 1..Len(new)}
        /\ UNCHANGED <<call, cli>>

\* lines 107-171: the faces are counted, clustered and the response is built
Respond(r) ==
    LET run == runs[r]
        embeddings_array ==
            NpArray([i \in 1..Len(run.all_faces) |-> run.all_faces[i].embedding])
    IN  /\ run.pc = "detect"
        /\ run.next > Len(run.saved_paths)
        /\ IF Len(run.all_faces) = 0
           THEN runs' = [runs EXCEPT ![r] =
                    [run EXCEPT !.pc = "done", !.response = NoFacesResponse]]
           ELSE IF Raised(embeddings_array)
           THEN runs' = [runs EXCEPT ![r] =
                    [run EXCEPT !.pc = "done",
                                !.response = ErrorResponse(embeddings_array.exc)]]
           ELSE \E g \in generate_clusters(ServiceGenerator, run.all_faces,
                                           embeddings_array.array, "face_id") :
                    runs' = [runs EXCEPT ![r] =
                       [run EXCEPT !.pc = "done",
                                   !.calls = @ + 1,
                                   !.labels = g.labels,
                                   !.response =
                                       IF Raised(g.out) THEN ErrorResponse(g.out.exc)
                                       ELSE SuccessResponse(run.task_id,
                                                            run.all_faces, g.out)]]
        /\ UNCHANGED <<call, storage, cli>>

InitRuns(R) ==
    /\ runs = [r \in R |-> RunIdle]
    /\ storage = {}
    /\ call = CallIdle
    /\ cli = CliIdle

NextRuns(R, images) ==
    \E r \in R :
        Request(r) \/ SaveFile(r) \/ DetectImage(r, images) \/ Respond(r)

\* one /process request
Init == InitRuns({1})

Next == NextRuns({1}, Images)

Spec == Init /\ [][Next]_vars

\* two /process requests served at the same time
InitConcurrent == InitRuns({1, 2})

NextConcurrent == NextRuns({1, 2}, PlainImages)

SpecConcurrent == InitConcurrent /\ [][NextConcurrent]_vars

(***************************************************************************)
(* A direct call of generate_clusters, as a library function, on any faces *)
(* list and any embeddings array.                                          *)
(***************************************************************************)
ImagePaths == {"a.jpg", "b.jpg", "c.jpg"}

\* positions of the embeddings passed in: 0 and 3 are within eps, as are 3
\* and 6; 0 and 6 are not
Pts == {0, 3, 6}

Embeddings512 == {[pt |-> p, dim |-> 512] : p \in Pts}

Algorithms == {"dbscan", "hdbscan", "kmeans"}

\* the ClusterGenerator a caller may construct; eps = 0.4 throughout
Generators ==
    {ClusterGenerator(a, 4, m, "cosine") : a \in Algorithms, m \in {1, 2}}

InitCall ==
    /\ call \in [pc : {"ready"},
                 self : Generators,
                 faces : SeqsUpTo([original_image_path : ImagePaths], MaxLen),
                 embeddings : SeqsUpTo(Embeddings512, MaxLen)]
    /\ runs = [r \in {} |-> RunIdle]
    /\ storage = {}
    /\ cli = CliIdle

\* result = cluster_gen.generate_clusters(faces, embeddings)
CallGenerateClusters ==
    /\ call.pc = "ready"
    /\ \E r \in generate_clusters(call.self, call.faces, call.embeddings,
                                  "original_image_path") :
          call' = [pc |-> IF Raised(r.out) THEN "raised" ELSE "returned",
                   self |-> call.self, faces |-> call.faces,
                   embeddings |-> call.embeddings,
                   labels |-> r.labels, out |-> r.out]
    /\ UNCHANGED <<runs, storage, cli>>

NextCall == CallGenerateClusters

SpecCall == InitCall /\ [][NextCall]_vars

(***************************************************************************)
(* execute.py: the command line entry point.                               *)
(***************************************************************************)
\* FaceExtractor.extract_faces_from_folder, lines 44-48: the image files of
\* the folder, each listed once, in the order os.listdir gives
Folders ==
    {f \in SeqsUpTo(ImagePaths, MaxFiles) :
        \A i, j \in 1..Len(f) : f[i] = f[j] => i = j}

\* main, lines 7-22: the arguments are parsed, the extractor and the
\* generator are built
CliStart ==
    /\ cli.pc = "idle"
    /\ \E self \in Generators, folder \in Folders :
          cli' = [pc |-> "extract",
                  self |-> self,
                  image_paths |-> [i \in 1..Len(folder) |->
                                      PathJoin(<<"Images">>, folder[i])],
                  faces |-> <<>>,
                  labels |-> <<>>,
                  calls |-> 0,
                  exc |-> "none",
                  result |-> EmptyDict]
    /\ UNCHANGED <<call, runs, storage>>

\* main, line 24, and extract_faces_from_folder, lines 50-52: the faces of
\* the next image are yielded; nothing catches an exception of the detector
CliExtract(images) ==
    /\ cli.pc = "extract"
    /\ cli.image_paths # <<>>
    /\ \E img \in images :
          LET got == extract_faces_from_image_path(
                         img, Head(cli.image_paths), MinSizeDefault,
                         DetThreshDefault)
          IN  IF Raised(got)
              THEN cli' = [cli EXCEPT !.pc = "crashed", !.exc = got.exc]
              ELSE /\ Len(cli.faces) + Len(got.yielded) <= MaxFaces
                   /\ cli' = [cli EXCEPT !.faces = @ \o got.yielded,
                                         !.image_paths = Tail(@)]
    /\ UNCHANGED <<call, runs, storage>>

\* main, lines 26-34: no face ends the program; otherwise the faces are
\* clustered and result["celebrity_matches"] is printed
CliCluster ==
    LET embeddings == NpArray([i \in 1..Len(cli.faces) |-> cli.faces[i].embedding])
    IN  /\ cli.pc = "extract"
        /\ cli.image_paths = <<>>
        /\ IF cli.faces = <<>>
           THEN cli' = [cli EXCEPT !.pc = "exited"]
           ELSE IF Raised(embeddings)
           THEN cli' = [cli EXCEPT !.pc = "crashed", !.exc = embeddings.exc]
           ELSE \E g \in generate_clusters(cli.self, cli.faces, embeddings.array,
                                           "original_image_path") :
                   cli' = IF Raised(g.out)
                          THEN [cli EXCEPT !.pc = "crashed", !.calls = @ + 1,
                                           !.exc = g.out.exc]
                          ELSE [cli EXCEPT
                                  !.pc = IF "celebrity_matches" \in DOMAIN g.out
                                         THEN "exited" ELSE "crashed",
                                  !.exc = IF "celebrity_matches" \in DOMAIN g.out
                                          THEN "none" ELSE "KeyError",
                                  !.calls = @ + 1,
                                  !.labels = g.labels,
                                  !.result = g.out]
        /\ UNCHANGED <<call, runs, storage>>

InitCli ==
    /\ cli = CliIdle
    /\ call = CallIdle
    /\ runs = [r \in {} |-> RunIdle]
    /\ storage = {}

NextCli == CliStart \/ CliExtract(Images) \/ CliCluster

SpecCli == InitCli /\ [][NextCli]_vars

(***************************************************************************)
(* Properties.                                                             *)
(***************************************************************************)
\* the places <<cluster, position>> at which id is listed in clusters
Occurrences(clusters, id) ==
    UNION {{<<name, k>> : k \in {n \in 1..Len(clusters[name]) :
                                    clusters[name][n] = id}} :
           name \in DOMAIN clusters}

DistinctIds(faces, key) ==
    \A i, j \in 1..Len(faces) : faces[i][key] = faces[j][key] => i = j

\* C1: generate_clusters on faces with pairwise distinct identifiers and as
\* many labels as faces returns clusters that partition the identifiers
\* (every identifier listed exactly once, in one cluster, and nothing else
\* listed) and an embeddings mapping with exactly the identifiers as keys.
C1_ClustersPartitionIds ==
    (/\ call.pc = "returned"
     /\ Len(call.faces) = Len(call.labels)
     /\ DistinctIds(call.faces, "original_image_path"))
    => LET ids == {call.faces[i].original_image_path : i \in 1..Len(call.faces)}
           clusters == call.out.clusters
       IN  /\ \A id \in ids : Cardinality(Occurrences(clusters, id)) = 1
           /\ \A name \in DOMAIN clusters : Range(clusters[name]) \subseteq ids
           /\ DOMAIN call.out.embeddings = ids

C1_TwoFacesOneCluster ==
    /\ call.pc = "returned"
    /\ Len(call.faces) = 2
    /\ Len(call.labels) = 2
    /\ DistinctIds(call.faces, "original_image_path")
    /\ call.labels[1] = call.labels[2]

\* the cluster names written out, the noise label under the given name
NamesAs(noise_name) ==
    (-1 :> noise_name) @@ (0 :> "person_0") @@ (1 :> "person_1")
    @@ (2 :> "person_2") @@ (3 :> "person_3") @@ (4 :> "person_4")

\* the faces of a returned call are listed under the names of the table:
\* each face under the name of its label and no other name in use; with
\* distinct identifiers, two faces share a cluster exactly when their labels
\* are equal
ListedUnder(names) ==
    (call.pc = "returned" /\ Len(call.faces) <= Len(call.labels))
    => LET clusters == call.out.clusters
           N == 1..Len(call.faces)
           id(i) == call.faces[i].original_image_path
       IN  /\ DOMAIN clusters = {names[call.labels[i]] : i \in N}
           /\ \A i \in N : id(i) \in Range(clusters[names[call.labels[i]]])
           /\ DistinctIds(call.faces, "original_image_path")
              => \A i, j \in N :
                    (call.labels[i] = call.labels[j])
                    <=> (\E name \in DOMAIN clusters :
                            {id(i), id(j)} \subseteq Range(clusters[name]))

\* C2 (as amended): the noise label -1 is listed under the reserved name
\* "noise" and every other label n under "person_" followed by n, so equal
\* labels share a cluster, distinct labels never do, and no other label is
\* listed under the reserved name.
C2_NoiseAndPersonNames == ListedUnder(NamesAs("noise"))

\* C2 (as stated): the reserved name of the noise label is "unclustered".
C2_NoiseIsUnclustered == ListedUnder(NamesAs("unclustered"))

C2_NoiseBesidePerson ==
    /\ call.pc = "returned"
    /\ Len(call.faces) = 2
    /\ DistinctIds(call.faces, "original_image_path")
    /\ \E i, j \in 1..Len(call.labels) :
          call.labels[i] = -1 /\ call.labels[j] # -1

\* C8: generate_clusters given faces and embeddings of different lengths
\* fails and returns no result.
C8_LengthMismatchFails ==
    (/\ call.pc \in {"returned", "raised"}
     /\ Len(call.faces) # Len(call.embeddings))
    => call.pc = "raised"

\* C3: a /process run with at least one saved image in which no detection
\* passes the filters ends with success false, total_faces 0 and an error
\* message, and never calls generate_clusters.
C3_NoFacesShortCircuit ==
    \A r \in DOMAIN runs :
        (/\ runs[r].pc = "done"
         /\ runs[r].saved_paths # <<>>
         /\ runs[r].all_faces = <<>>)
        => /\ runs[r].calls = 0
           /\ runs[r].response.body.success = FALSE
           /\ "error" \in DOMAIN runs[r].response.body
           /\ "total_faces" \in DOMAIN runs[r].response.body
           /\ runs[r].response.body.total_faces = 0

\* C4: a run in which the detector failed on an image (the image did not
\* load, or the detector raised) still goes through every image and its
\* response counts the faces of the other images in total_faces.
C4_DetectorFailureSkipsImage ==
    \A r \in DOMAIN runs :
        (runs[r].pc = "done" /\ runs[r].failed # {})
        => /\ runs[r].next > Len(runs[r].saved_paths)
           /\ "total_faces" \in DOMAIN runs[r].response.body
           /\ runs[r].response.body.total_faces = Len(runs[r].all_faces)

\* C5: an exception of the clustering (unknown algorithm, embeddings of
\* different lengths) ends the run with a failure result, in the service
\* and on the command line alike; it never ends the program uncaught.
C5_ClusteringFailureIsResult ==
    /\ \A r \in DOMAIN runs :
          (runs[r].pc = "done" /\ runs[r].response.status = 500)
          => runs[r].response.body.success = FALSE
    /\ ~(cli.pc = "crashed" /\ cli.calls > 0 /\ cli.exc = "ValueError")

\* C6: the face records of one /process run have pairwise different
\* identifiers.
C6_FaceIdsUnique ==
    \A r \in DOMAIN runs :
        runs[r].pc # "idle" => DistinctIds(runs[r].all_faces, "face_id")

C6_CounterResetBetweenImages ==
    \E r \in DOMAIN runs :
        /\ runs[r].pc # "idle"
        /\ Len(runs[r].all_faces) = 3
        /\ runs[r].all_faces[1].original_image_name
              = runs[r].all_faces[2].original_image_name
        /\ runs[r].all_faces[2].original_image_name
              # runs[r].all_faces[3].original_image_name

\* C7: generate_clusters never returns a success result in which an
\* identifier is listed more than once or one record's embedding has
\* replaced another's (command line: records keyed by their image path).
C7_DuplicateIdsNotMerged ==
    (cli.pc # "idle" /\ "success" \in DOMAIN cli.result)
    => \A i \in 1..Len(cli.faces) :
          LET id == cli.faces[i].original_image_path
          IN  /\ Cardinality(Occurrences(cli.result.clusters, id)) = 1
              /\ cli.result.embeddings[id] = cli.faces[i].embedding

\* C9: no two runs write the same storage path.
C9_PathsNamespacedPerRun ==
    \A w1, w2 \in storage : w1[1] = w2[1] => w1[2] = w2[2]

\* C10: a successful /process response has no noise cluster: no face has
\* label -1, every face is listed in a person_N cluster, and
\* unique_persons is the number of cluster keys, between 1 and total_faces.
C10_ServiceHasNoNoise ==
    \A r \in DOMAIN runs :
        (runs[r].pc = "done" /\ runs[r].response.body.success)
        => LET body == runs[r].response.body
               persons == {"person_" \o ToStr(n) : n \in 0..MaxFaces}
           IN  /\ "noise" \notin DOMAIN body.clusters
               /\ \A i \in 1..Len(runs[r].labels) : runs[r].labels[i] # -1
               /\ DOMAIN body.clusters \subseteq persons
               /\ \A i \in 1..Len(runs[r].all_faces) :
                     \E name \in DOMAIN body.clusters :
                        runs[r].all_faces[i].face_id \in Range(body.clusters[name])
               /\ body.unique_persons = Cardinality(DOMAIN body.clusters)
               /\ 1 <= body.unique_persons
               /\ body.unique_persons <= body.total_faces

C10_TwoPersonsThreeFaces ==
    \E r \in DOMAIN runs :
        /\ runs[r].pc = "done"
        /\ runs[r].response.body.success
        /\ runs[r].response.body.total_faces = 3
        /\ runs[r].response.body.unique_persons = 2

=============================================================================
